---- MODULE Spec2Model ----
(***************************************************************************)
(* A model of github.com/skillian/argparse: the argument model and its    *)
(* options (argument.go), the registry built by AddArgument (parser.go),   *)
(* the action table, the result mapping (namespace.go) and the parsing    *)
(* engine (parsing.go).                                                    *)
(*                                                                         *)
(* Go strings are sequences of one-character strings, so that prefixes,   *)
(* alphanumeric runs and number scanning are computed, not looked up.     *)
(* Go interface{} values are tagged records [t, v].                        *)
(***************************************************************************)
EXTENDS Integers, Sequences, FiniteSets, TLC

\* ------------------------------------------------------------------ bounds

\* The caller makes at most MaxArgs AddArgument calls on one parser.
MaxArgs == 3

\* The caller passes at most MaxTokens tokens to one ParseArgs call.
MaxTokens == 4

\* ----------------------------------------------------------------- strings

Digits == <<"0", "1", "2", "3", "4", "5", "6", "7", "8", "9">>

Lowers ==
  <<"a", "b", "c", "d", "e", "f", "g", "h", "i", "j", "k", "l", "m",
    "n", "o", "p", "q", "r", "s", "t", "u", "v", "w", "x", "y", "z">>

Uppers ==
  <<"A", "B", "C", "D", "E", "F", "G", "H", "I", "J", "K", "L", "M",
    "N", "O", "P", "Q", "R", "S", "T", "U", "V", "W", "X", "Y", "Z">>

Range(s) == {s[i] : i \in DOMAIN s}

\* The characters in byte order: "-" < digits < upper case < lower case.
CharOrder == <<"-">> \o Digits \o Uppers \o Lowers

Code(c) == CHOOSE i \in DOMAIN CharOrder : CharOrder[i] = c

IsDigit(c) == c \in Range(Digits)

\* alphaNumRegexp's character class [0-9A-Za-z]
IsAlnum(c) == c \in Range(Digits) \cup Range(Uppers) \cup Range(Lowers)

\* strings.ToUpper, one character
UpperChar(c) ==
  IF c \in Range(Lowers)
    THEN Uppers[CHOOSE i \in DOMAIN Lowers : Lowers[i] = c]
    ELSE c

ToUpper(s) == [i \in DOMAIN s |-> UpperChar(s[i])]

\* strings.HasPrefix(s, "-")
HasDashPrefix(s) == Len(s) > 0 /\ s[1] = "-"

\* strings.Compare(x, y) < 0: byte-wise lexicographic order
RECURSIVE StrLess(_, _)
StrLess(x, y) ==
  IF Len(y) = 0 THEN FALSE
  ELSE IF Len(x) = 0 THEN TRUE
  ELSE IF x[1] # y[1] THEN Code(x[1]) < Code(y[1])
  ELSE StrLess(Tail(x), Tail(y))

\* ------------------------------------------------------------------ values

Nil == [t |-> "nil", v |-> <<>>]
StrV(s) == [t |-> "string", v |-> s]
IntV(i) == [t |-> "int", v |-> i]
BoolV(b) == [t |-> "bool", v |-> b]
SliceV(vs) == [t |-> "slice", v |-> vs]

\* Nargs sentinels
OneOrMore == -1
ZeroOrMore == -2
ZeroOrOne == -3

isValidNarg(v) == v >= ZeroOrOne

\* ------------------------------------------------------------ value parsers

NoErr == [kind |-> "none", about |-> <<>>]
Err(kind, about) == [kind |-> kind, about |-> about]

\* The decimal value of a sequence of digit characters.
RECURSIVE DigitsValue(_)
DigitsValue(ds) ==
  IF Len(ds) = 0 THEN 0
  ELSE 10 * DigitsValue(SubSeq(ds, 1, Len(ds) - 1))
       + (Code(ds[Len(ds)]) - Code("0"))

\* The length of the longest prefix of s made of digits.
RECURSIVE DigitPrefixLen(_)
DigitPrefixLen(s) ==
  IF Len(s) > 0 /\ IsDigit(s[1]) THEN 1 + DigitPrefixLen(Tail(s)) ELSE 0

\* String: the identity parser.
String(tok) == [err |-> NoErr, v |-> StrV(tok)]

\* Int (the ValueParser): fmt.Sscanf(tok, "%d", &i): an optional sign, then at least one digit;
\* scanning stops at the first non-digit and what follows is left unread.
IntParser(tok) ==
  LET signed == Len(tok) > 0 /\ tok[1] \in {"+", "-"}
      rest == IF signed THEN Tail(tok) ELSE tok
      n == DigitPrefixLen(rest)
      mag == DigitsValue(SubSeq(rest, 1, n))
  IN IF n = 0
       THEN [err |-> Err("ConversionFailed", tok), v |-> IntV(0)]
       ELSE [err |-> NoErr,
             v |-> IntV(IF signed /\ tok[1] = "-" THEN 0 - mag ELSE mag)]

ValueParser(type, tok) == IF type = "Int" THEN IntParser(tok) ELSE String(tok)

\* ----------------------------------------------------------------- choices

NoChoices == [set |-> FALSE, items |-> <<>>]

\* NewChoices: the items, indexed by key (a later duplicate key overwrites).
NewChoices(choices) == [set |-> TRUE, items |-> choices]

\* fmt.Sprint of a non-negative int: its decimal digits.
RECURSIVE SprintNat(_)
SprintNat(n) ==
  IF n < 10 THEN <<Digits[n + 1]>>
  ELSE SprintNat(n \div 10) \o <<Digits[(n % 10) + 1]>>

Sprint(val) ==
  IF val.t = "string" THEN val.v
  ELSE IF val.t = "bool"
    THEN (IF val.v THEN <<"t", "r", "u", "e">> ELSE <<"f", "a", "l", "s", "e">>)
  ELSE IF val.t = "int"
    THEN (IF val.v < 0 THEN <<"-">> \o SprintNat(0 - val.v) ELSE SprintNat(val.v))
  ELSE <<"<", "n", "i", "l", ">">>

\* NewChoiceValues: a string value is its own key, any other value's key is its
\* printed form.
NewChoiceValues(values) ==
  [set |-> TRUE,
   items |-> [i \in DOMAIN values |->
                [Key |-> Sprint(values[i]), Value |-> values[i]]]]

\* ArgumentChoices.Load
Load(cs, key) ==
  LET hits == {i \in DOMAIN cs.items : cs.items[i].Key = key}
  IN IF hits = {}
       THEN [ok |-> FALSE, v |-> Nil]
       ELSE [ok |-> TRUE,
             v |-> cs.items[CHOOSE i \in hits : \A j \in hits : j <= i].Value]

\* ---------------------------------------------------------- argument model

\* new(Argument): every field at its zero value.  Action "" and Type "" are
\* the nil action and the nil ValueParser.
ZeroArgument ==
  [Action |-> "", Const |-> Nil, Default |-> Nil, Dest |-> <<>>,
   MetaVar |-> <<>>, Nargs |-> 0, OptionStrings |-> <<>>,
   Required |-> FALSE, Type |-> "", Choices |-> NoChoices]

\* The action table: the names registered by makeArgumentActionStruct.
actions == {"append", "store", "store_true", "store_false"}

Ok(a) == [ok |-> TRUE, a |-> a]
Fail(a) == [ok |-> FALSE, a |-> a]

\* Action(v): the named action, and the arity and constants that go with it.
\* Action names are lower case and trimmed already.
Action(a, v) ==
  IF v \notin actions THEN Fail(a)
  ELSE IF v = "store"
    THEN Ok([a EXCEPT !.Action = v,
                      !.Nargs = IF a.Nargs < 1 THEN 1 ELSE a.Nargs])
  ELSE IF v = "store_true"
    THEN Ok([a EXCEPT !.Action = v, !.Default = BoolV(FALSE),
                      !.Const = BoolV(TRUE), !.Nargs = 0])
  ELSE IF v = "store_false"
    THEN Ok([a EXCEPT !.Action = v, !.Default = BoolV(TRUE),
                      !.Const = BoolV(FALSE), !.Nargs = 0])
  ELSE Ok([a EXCEPT !.Action = v])

Choices(a, choices) == Ok([a EXCEPT !.Choices = NewChoices(choices)])

ChoiceValues(a, values) == Ok([a EXCEPT !.Choices = NewChoiceValues(values)])

Const(a, v) == Ok([a EXCEPT !.Const = v])

Default(a, v) == Ok([a EXCEPT !.Default = v])

Dest(a, v) == Ok([a EXCEPT !.Dest = v])

MetaVar(a, v) == Ok([a EXCEPT !.MetaVar = v])

Nargs(a, v) == IF ~isValidNarg(v) THEN Fail(a) ELSE Ok([a EXCEPT !.Nargs = v])

\* OptionStrings(ops...): at least one string, all with a leading "-" or none.
OptionStrings(a, ops) ==
  LET optional == \E i \in DOMAIN ops : Len(ops[i]) > 0 /\ ops[i][1] = "-"
      positional == \E i \in DOMAIN ops : ~(Len(ops[i]) > 0 /\ ops[i][1] = "-")
  IN IF Len(ops) = 0 THEN Fail(a)
     ELSE IF optional = positional THEN Fail(a)
     ELSE Ok([a EXCEPT !.OptionStrings = ops])

Required(a) == Ok([a EXCEPT !.Required = TRUE])

Type(a, t) == IF a.Type # "" THEN Fail(a) ELSE Ok([a EXCEPT !.Type = t])

\* One ArgumentOption applied to the argument under construction.
ApplyOption(a, o) ==
  CASE o.opt = "Action" -> Action(a, o.v)
    [] o.opt = "Choices" -> Choices(a, o.v)
    [] o.opt = "ChoiceValues" -> ChoiceValues(a, o.v)
    [] o.opt = "Const" -> Const(a, o.v)
    [] o.opt = "Default" -> Default(a, o.v)
    [] o.opt = "Dest" -> Dest(a, o.v)
    [] o.opt = "MetaVar" -> MetaVar(a, o.v)
    [] o.opt = "Nargs" -> Nargs(a, o.v)
    [] o.opt = "OptionStrings" -> OptionStrings(a, o.v)
    [] o.opt = "Required" -> Required(a)
    [] o.opt = "Type" -> Type(a, o.v)

\* The options applied in sequence; the first failure ends the construction.
RECURSIVE ApplyOptions(_, _)
ApplyOptions(a, options) ==
  IF Len(options) = 0 THEN Ok(a)
  ELSE LET r == ApplyOption(a, Head(options))
       IN IF r.ok THEN ApplyOptions(r.a, Tail(options)) ELSE r

\* Argument.Optional: some option string starts with "-".
Optional(a) == \E i \in DOMAIN a.OptionStrings : HasDashPrefix(a.OptionStrings[i])

\* The first alphanumeric run of one option string alone.
AlnumFirstRun(op) ==
  LET starts == {i \in DOMAIN op : IsAlnum(op[i])}
  IN IF starts = {} THEN <<>>
     ELSE LET i == CHOOSE k \in starts : \A l \in starts : k <= l
              ends == {j \in i..Len(op) : \A k \in i..j : IsAlnum(op[k])}
          IN SubSeq(op, i, CHOOSE j \in ends : \A l \in ends : l <= j)

\* alphaNumRegexp.FindAllString(op, -1) joined with "": the alphanumeric runs
\* of one option string, joined.
AlnumJoin(op) == SelectSeq(op, IsAlnum)

\* The default Dest: the longest AlnumJoin among the option strings, the
\* first one winning a tie.
RECURSIVE DefaultDest(_, _)
DefaultDest(ops, dest) ==
  IF Len(ops) = 0 THEN dest
  ELSE LET full == AlnumJoin(Head(ops))
       IN DefaultDest(Tail(ops), IF Len(full) > Len(dest) THEN full ELSE dest)

\* The defaults with the arity that goes with store filled in as well.
WithDefaultsArityOne(a0) ==
  LET a1 == [a0 EXCEPT !.Action = IF a0.Action = "" THEN "store" ELSE a0.Action,
                       !.Nargs = IF a0.Action = "" /\ a0.Nargs < 1 THEN 1 ELSE a0.Nargs,
                       !.Type = IF a0.Type = "" THEN "String" ELSE a0.Type]
      upper == ToUpper(DefaultDest(a1.OptionStrings, <<>>))
  IN [a1 EXCEPT !.Dest = IF a1.Dest = <<>>
                           THEN DefaultDest(a1.OptionStrings, <<>>) ELSE a1.Dest,
                !.MetaVar = IF Len(a1.MetaVar) = 0 /\ ~a1.Choices.set
                              THEN <<upper>> ELSE a1.MetaVar]

\* The defaults AddArgument fills in once the options are applied.
WithDefaults(a0) ==
  LET a1 == [a0 EXCEPT !.Action = IF a0.Action = "" THEN "store" ELSE a0.Action,
                       !.Type = IF a0.Type = "" THEN "String" ELSE a0.Type]
      a2 == [a1 EXCEPT !.Dest = IF a1.Dest = <<>>
                                  THEN DefaultDest(a1.OptionStrings, <<>>)
                                  ELSE a1.Dest]
      upper == ToUpper(a2.Dest)
  IN IF Len(a2.MetaVar) = 0 /\ a2.Nargs # 0 /\ ~a2.Choices.set
       THEN [a2 EXCEPT !.MetaVar =
               IF a2.Nargs < 0 \/ a2.Nargs = 1
                 THEN <<upper>>
                 ELSE [i \in 1..a2.Nargs |-> upper]]
       ELSE a2

\* ---------------------------------------------------------- result mapping

\* A Namespace is a function from Dest to value; EmptyNS is make(Namespace).
EmptyNS == <<>>

Has(ns, a) == a.Dest \in DOMAIN ns

\* Namespace.Get: the value under the argument's Dest
Get(ns, a) == IF Has(ns, a) THEN ns[a.Dest] ELSE Nil

\* Namespace.Set
Set(ns, a, v) ==
  [k \in DOMAIN ns \cup {a.Dest} |-> IF k = a.Dest THEN v ELSE ns[k]]

\* Namespace.Append dropping what the key held.
NsAppendReplace(ns, a, vs) == Set(ns, a, SliceV(vs))

\* Namespace.Append(a, vs...): the values join the slice under the key; a value
\* that is not a slice becomes the first element.
NsAppend(ns, a, vs) ==
  LET values == IF ~Has(ns, a) THEN <<>>
                ELSE IF ns[a.Dest].t = "slice" THEN ns[a.Dest].v
                ELSE <<ns[a.Dest]>>
  IN Set(ns, a, SliceV(values \o vs))

\* ----------------------------------------------------------- action table

\* getArgValueForNS that always commits the slice.
getArgValueForNSSlice(a, vs) == SliceV(vs)

\* getArgValueForNS unwrapping a single value whatever the arity.
getArgValueForNSSingle(a, vs) == IF Len(vs) = 1 THEN vs[1] ELSE SliceV(vs)

\* What an action commits for the values vs: the value itself for one value of
\* an argument of arity one, the slice otherwise.
getArgValueForNS(a, vs) ==
  IF a.Nargs = 1 /\ Len(vs) = 1 THEN vs[1] ELSE SliceV(vs)

AppendAction(a, ns, vs) ==
  [err |-> NoErr, ns |-> NsAppend(ns, a, <<getArgValueForNS(a, vs)>>)]

\* Store without the guard on a key that is already set.
StoreOverwrite(a, ns, vs) ==
  [err |-> NoErr, ns |-> Set(ns, a, getArgValueForNS(a, vs))]

Store(a, ns, vs) ==
  IF Has(ns, a)
    THEN [err |-> Err("AlreadySet", a.Dest), ns |-> ns]
    ELSE [err |-> NoErr, ns |-> Set(ns, a, getArgValueForNS(a, vs))]

StoreTrue(a, ns, vs) ==
  IF Len(vs) # 1 THEN [err |-> Err("UnexpectedValues", a.Dest), ns |-> ns]
  ELSE IF vs[1].t # "bool" THEN [err |-> Err("UnexpectedType", a.Dest), ns |-> ns]
  ELSE [err |-> NoErr, ns |-> Set(ns, a, vs[1])]

StoreFalse(a, ns, vs) ==
  IF Len(vs) > 0 THEN [err |-> Err("UnexpectedValues", a.Dest), ns |-> ns]
  ELSE [err |-> NoErr, ns |-> Set(ns, a, BoolV(FALSE))]

\* a.Action(a, ns, vs): the argument's action updates the namespace.
UpdateNamespace(a, ns, vs) ==
  CASE a.Action = "append" -> AppendAction(a, ns, vs)
    [] a.Action = "store" -> Store(a, ns, vs)
    [] a.Action = "store_true" -> StoreTrue(a, ns, vs)
    [] a.Action = "store_false" -> StoreFalse(a, ns, vs)

\* createValue that never looks at the choices.
createValueNoChoices(a, tok) == ValueParser(a.Type, tok)

\* Argument.createValue: a choice's value when the argument has choices, the
\* type's conversion otherwise.
createValue(a, tok) ==
  IF a.Choices.set
    THEN LET l == Load(a.Choices, tok)
         IN IF l.ok THEN [err |-> NoErr, v |-> l.v]
            ELSE [err |-> Err("InvalidChoice", a.Dest), v |-> Nil]
    ELSE ValueParser(a.Type, tok)

\* createValue over a run of tokens: the values up to the first failure.
RECURSIVE createValues(_, _)
createValues(a, toks) ==
  IF Len(toks) = 0 THEN [err |-> NoErr, vs |-> <<>>]
  ELSE LET c == createValue(a, Head(toks))
       IN IF c.err # NoErr THEN [err |-> c.err, vs |-> <<>>]
          ELSE LET r == createValues(a, Tail(toks))
               IN [err |-> r.err, vs |-> <<c.v>> \o r.vs]

\* ---------------------------------------------------------- parsing engine

\* parsingState.remainder: the tokens from the cursor on
remainder(args, argi) ==
  IF argi >= Len(args) THEN <<>> ELSE SubSeq(args, argi + 1, Len(args))

\* The length of the longest prefix of r holding no registered option string.
RECURSIVE RunLen(_, _)
RunLen(opts, r) ==
  IF Len(r) = 0 \/ Head(r) \in DOMAIN opts THEN 0
  ELSE 1 + RunLen(opts, Tail(r))

\* getArgs without the look-up of value tokens in the named map: a variable
\* arity takes whatever follows.
getArgsGreedy(opts, a, args, argi) ==
  LET r == remainder(args, argi)
  IN IF a.Nargs > Len(r)
       THEN [err |-> Err("InsufficientValues", a.Dest), toks |-> <<>>, argi |-> argi]
     ELSE IF a.Nargs = 0
       THEN [err |-> NoErr, toks |-> <<>>, argi |-> argi]
     ELSE IF a.Nargs = ZeroOrOne
       THEN IF Len(r) > 0
              THEN [err |-> NoErr, toks |-> SubSeq(r, 1, 1), argi |-> argi + 1]
              ELSE [err |-> NoErr, toks |-> <<>>, argi |-> argi]
     ELSE IF a.Nargs = ZeroOrMore /\ Len(r) = 0
       THEN [err |-> NoErr, toks |-> <<>>, argi |-> argi]
     ELSE IF a.Nargs \in {ZeroOrMore, OneOrMore}
       THEN IF Len(r) = 0
              THEN [err |-> Err("InsufficientValues", a.Dest),
                    toks |-> <<>>, argi |-> argi]
              ELSE [err |-> NoErr, toks |-> r, argi |-> argi + Len(r)]
     ELSE [err |-> NoErr, toks |-> SubSeq(r, 1, a.Nargs), argi |-> argi + a.Nargs]

\* getArgs whose exactly-N run may not hold a registered option string.
getArgsNoOptions(opts, a, args, argi) ==
  LET r == remainder(args, argi)
  IN IF a.Nargs > Len(r) \/ (a.Nargs >= 1 /\ RunLen(opts, r) < a.Nargs)
       THEN [err |-> Err("InsufficientValues", a.Dest), toks |-> <<>>, argi |-> argi]
     ELSE IF a.Nargs = 0
       THEN [err |-> NoErr, toks |-> <<>>, argi |-> argi]
     ELSE IF a.Nargs = ZeroOrOne
       THEN IF Len(r) > 0 /\ r[1] \notin DOMAIN opts
              THEN [err |-> NoErr, toks |-> SubSeq(r, 1, 1), argi |-> argi + 1]
              ELSE [err |-> NoErr, toks |-> <<>>, argi |-> argi]
     ELSE IF a.Nargs = ZeroOrMore /\ Len(r) = 0
       THEN [err |-> NoErr, toks |-> <<>>, argi |-> argi]
     ELSE IF a.Nargs \in {ZeroOrMore, OneOrMore}
       THEN IF Len(r) = 0
              THEN [err |-> Err("InsufficientValues", a.Dest),
                    toks |-> <<>>, argi |-> argi]
              ELSE LET i == RunLen(opts, r)
                   IN [err |-> NoErr, toks |-> SubSeq(r, 1, i), argi |-> argi + i]
     ELSE [err |-> NoErr, toks |-> SubSeq(r, 1, a.Nargs), argi |-> argi + a.Nargs]

\* parsingState.getArgs: the tokens the argument takes and the cursor after.
getArgs(opts, a, args, argi) ==
  LET r == remainder(args, argi)
  IN IF a.Nargs > Len(r)
       THEN [err |-> Err("InsufficientValues", a.Dest), toks |-> <<>>, argi |-> argi]
     ELSE IF a.Nargs = 0
       THEN [err |-> NoErr, toks |-> <<>>, argi |-> argi]
     ELSE IF a.Nargs = ZeroOrOne
       THEN IF Len(r) > 0 /\ r[1] \notin DOMAIN opts
              THEN [err |-> NoErr, toks |-> SubSeq(r, 1, 1), argi |-> argi + 1]
              ELSE [err |-> NoErr, toks |-> <<>>, argi |-> argi]
     ELSE IF a.Nargs = ZeroOrMore /\ Len(r) = 0
       THEN [err |-> NoErr, toks |-> <<>>, argi |-> argi]
     ELSE IF a.Nargs \in {ZeroOrMore, OneOrMore}
       THEN IF Len(r) = 0
              THEN [err |-> Err("InsufficientValues", a.Dest),
                    toks |-> <<>>, argi |-> argi]
              ELSE LET i == RunLen(opts, r)
                   IN [err |-> NoErr, toks |-> SubSeq(r, 1, i), argi |-> argi + i]
     ELSE [err |-> NoErr, toks |-> SubSeq(r, 1, a.Nargs), argi |-> argi + a.Nargs]

\* handle without the check of an empty run for one-or-more.
handleEmptyRun(opts, a, args, argi, ns) ==
  LET g == getArgs(opts, a, args, argi)
      n == Len(g.toks)
      const == UpdateNamespace(a, ns, <<a.Const>>)
      conv == createValues(a, g.toks)
      act == UpdateNamespace(a, ns, conv.vs)
      stop(e) == [err |-> e, ns |-> ns, argi |-> g.argi, toks |-> g.toks,
                  acted |-> FALSE]
      run(u) == [err |-> u.err, ns |-> u.ns, argi |-> g.argi, toks |-> g.toks,
                 acted |-> TRUE]
  IN IF g.err # NoErr THEN stop(g.err)
     ELSE IF a.Nargs = 0
       THEN IF n # 0 THEN stop(Err("ExpectedNoValues", a.Dest)) ELSE run(const)
     ELSE IF a.Nargs \in {ZeroOrOne, ZeroOrMore} /\ n = 0 THEN run(const)
     ELSE IF conv.err # NoErr THEN stop(conv.err)
     ELSE run(act)

\* handle leaving the cursor where it was before the values.
handleStay(opts, a, args, argi, ns) ==
  LET g == getArgs(opts, a, args, argi)
      n == Len(g.toks)
      const == UpdateNamespace(a, ns, <<a.Const>>)
      conv == createValues(a, g.toks)
      act == UpdateNamespace(a, ns, conv.vs)
      stop(e) == [err |-> e, ns |-> ns, argi |-> argi, toks |-> g.toks,
                  acted |-> FALSE]
      run(u) == [err |-> u.err, ns |-> u.ns, argi |-> argi, toks |-> g.toks,
                 acted |-> TRUE]
  IN IF g.err # NoErr THEN stop(g.err)
     ELSE IF a.Nargs = 0
       THEN IF n # 0 THEN stop(Err("ExpectedNoValues", a.Dest)) ELSE run(const)
     ELSE IF a.Nargs \in {ZeroOrOne, ZeroOrMore} /\ n = 0 THEN run(const)
     ELSE IF a.Nargs = OneOrMore /\ n = 0
       THEN stop(Err("InsufficientValues", <<>>))
     ELSE IF conv.err # NoErr THEN stop(conv.err)
     ELSE run(act)

\* handle passing the empty value list to the action when no token was taken.
handleNoValues(opts, a, args, argi, ns) ==
  LET g == getArgs(opts, a, args, argi)
      n == Len(g.toks)
      conv == createValues(a, g.toks)
      act == UpdateNamespace(a, ns, conv.vs)
      stop(e) == [err |-> e, ns |-> ns, argi |-> g.argi, toks |-> g.toks,
                  acted |-> FALSE]
      run(u) == [err |-> u.err, ns |-> u.ns, argi |-> g.argi, toks |-> g.toks,
                 acted |-> TRUE]
  IN IF g.err # NoErr THEN stop(g.err)
     ELSE IF a.Nargs = 0 /\ n # 0 THEN stop(Err("ExpectedNoValues", a.Dest))
     ELSE IF a.Nargs = OneOrMore /\ n = 0
       THEN stop(Err("InsufficientValues", <<>>))
     ELSE IF conv.err # NoErr THEN stop(conv.err)
     ELSE run(act)

\* parsingState.handle: the argument takes its tokens, converts them and runs
\* its action.  toks is what getArgs returned, acted whether the action ran.
handle(opts, a, args, argi, ns) ==
  LET g == getArgs(opts, a, args, argi)
      n == Len(g.toks)
      const == UpdateNamespace(a, ns, <<a.Const>>)
      conv == createValues(a, g.toks)
      act == UpdateNamespace(a, ns, conv.vs)
      stop(e) == [err |-> e, ns |-> ns, argi |-> g.argi, toks |-> g.toks,
                  acted |-> FALSE]
      run(u) == [err |-> u.err, ns |-> u.ns, argi |-> g.argi, toks |-> g.toks,
                 acted |-> TRUE]
  IN IF g.err # NoErr THEN stop(g.err)
     ELSE IF a.Nargs = 0
       THEN IF n # 0 THEN stop(Err("ExpectedNoValues", a.Dest)) ELSE run(const)
     ELSE IF a.Nargs \in {ZeroOrOne, ZeroOrMore} /\ n = 0 THEN run(const)
     ELSE IF a.Nargs = OneOrMore /\ n = 0
       THEN stop(Err("InsufficientValues", <<>>))
     ELSE IF conv.err # NoErr THEN stop(conv.err)
     ELSE run(act)

\* The arguments held by the named map, each once.
NamedArgs(opts) == {opts[k] : k \in DOMAIN opts}

\* The orders of a finite set, as sequences without repetition.
Orders(S) ==
  {f \in [1..Cardinality(S) -> S] : \A i, j \in DOMAIN f : i # j => f[i] # f[j]}

\* ArgumentParser.getOptionals(sorted): the named arguments, each once, in the
\* order the map iteration yields them, which Go leaves unspecified; sorted by
\* Dest when asked (sort.Slice keeps no order among equal Dests).
getOptionals(opts, sorted) ==
  IF sorted
    THEN {f \in Orders(NamedArgs(opts)) :
            \A i, j \in DOMAIN f : i < j => ~StrLess(f[j].Dest, f[i].Dest)}
    ELSE Orders(NamedArgs(opts))

\* The resolution pass with the default looked at before the required flag.
RECURSIVE resolveDefaultFirst(_, _, _)
resolveDefaultFirst(allArgs, i, ns) ==
  IF i > Len(allArgs) THEN [err |-> NoErr, ns |-> ns, at |-> i]
  ELSE LET a == allArgs[i]
       IN IF Has(ns, a) THEN resolveDefaultFirst(allArgs, i + 1, ns)
          ELSE IF a.Default # Nil
            THEN LET u == UpdateNamespace(a, ns, <<a.Default>>)
                 IN IF u.err # NoErr
                      THEN [err |-> u.err, ns |-> ns, at |-> i]
                      ELSE resolveDefaultFirst(allArgs, i + 1, u.ns)
          ELSE IF a.Required
            THEN [err |-> Err("MissingRequired", a.Dest), ns |-> ns, at |-> i]
          ELSE resolveDefaultFirst(allArgs, i + 1, ns)

\* The resolution pass checking the required arguments only.
RECURSIVE resolveNoDefaults(_, _, _)
resolveNoDefaults(allArgs, i, ns) ==
  IF i > Len(allArgs) THEN [err |-> NoErr, ns |-> ns, at |-> i]
  ELSE LET a == allArgs[i]
       IN IF ~Has(ns, a) /\ a.Required
            THEN [err |-> Err("MissingRequired", a.Dest), ns |-> ns, at |-> i]
            ELSE resolveNoDefaults(allArgs, i + 1, ns)

\* The resolution pass with the required check made whatever the namespace
\* holds.
RECURSIVE resolveUnseen(_, _, _)
resolveUnseen(allArgs, i, ns) ==
  IF i > Len(allArgs) THEN [err |-> NoErr, ns |-> ns, at |-> i]
  ELSE LET a == allArgs[i]
       IN IF a.Required
            THEN [err |-> Err("MissingRequired", a.Dest), ns |-> ns, at |-> i]
          ELSE IF ~Has(ns, a) /\ a.Default # Nil
            THEN LET u == UpdateNamespace(a, ns, <<a.Default>>)
                 IN IF u.err # NoErr
                      THEN [err |-> u.err, ns |-> ns, at |-> i]
                      ELSE resolveUnseen(allArgs, i + 1, u.ns)
          ELSE resolveUnseen(allArgs, i + 1, ns)

\* The resolution pass of parsingState.parse over allArgs from index i on:
\* an absent required argument fails, an absent argument with a default has
\* its action run on the default.  at is the index of the argument that
\* failed.
RECURSIVE resolve(_, _, _)
resolve(allArgs, i, ns) ==
  IF i > Len(allArgs) THEN [err |-> NoErr, ns |-> ns, at |-> i]
  ELSE LET a == allArgs[i]
       IN IF Has(ns, a) THEN resolve(allArgs, i + 1, ns)
          ELSE IF a.Required
            THEN [err |-> Err("MissingRequired", a.Dest), ns |-> ns, at |-> i]
          ELSE IF a.Default # Nil
            THEN LET u == UpdateNamespace(a, ns, <<a.Default>>)
                 IN IF u.err # NoErr
                      THEN [err |-> u.err, ns |-> ns, at |-> i]
                      ELSE resolve(allArgs, i + 1, u.ns)
          ELSE resolve(allArgs, i + 1, ns)

\* handleHelp looking at the first token only.
handleHelpFirst(nohelp, args) ==
  ~nohelp /\ Len(args) > 0
          /\ args[1] \in {<<"-", "h">>, <<"-", "-", "h", "e", "l", "p">>}

\* handleHelp: whether the help text is printed and the process exits.
handleHelp(nohelp, args) ==
  ~nohelp /\ \E i \in DOMAIN args :
                args[i] \in {<<"-", "h">>, <<"-", "-", "h", "e", "l", "p">>}

\* ParseArgs handing the namespace back along with the error.
ParseArgsReturnPartial(err, ns) == [ns |-> [some |-> TRUE, m |-> ns], err |-> err]

\* What ParseArgs returns once parse has returned err with the namespace ns
\* (no argument is bound to a target, so setValues has nothing to assign).
NoNamespace == [some |-> FALSE, m |-> EmptyNS]
ParseArgsReturn(err, ns) ==
  IF err # NoErr
    THEN [ns |-> NoNamespace, err |-> err]
    ELSE [ns |-> [some |-> TRUE, m |-> ns], err |-> NoErr]

\* ------------------------------------------------------- calling programs

Opt(name, v) == [opt |-> name, v |-> v]

sFlag == <<"-", "-", "f", "l", "a", "g">>
sOther == <<"-", "-", "o", "t", "h", "e", "r">>
sTags == <<"-", "-", "t", "a", "g", "s">>
sC == <<"-", "c">>
sCount == <<"-", "-", "c", "o", "u", "n", "t">>
sSource == <<"s", "o", "u", "r", "c", "e">>
sTarget == <<"t", "a", "r", "g", "e", "t">>
sReq == <<"-", "-", "r", "e", "q">>
sOpt == <<"-", "-", "o", "p", "t">>
sNeed == <<"-", "-", "n", "e", "e", "d">>
sREQ == <<"-", "r", "e", "q">>
sLevel == <<"-", "-", "l", "e", "v", "e", "l">>
sN == <<"-", "n">>
sT == <<"-", "t">>
sTag == <<"-", "-", "t", "a", "g">>
sTwo == <<"-", "-", "t", "w", "o">>
sPair == <<"p", "a", "i", "r">>
sRest == <<"r", "e", "s", "t">>
sFiles == <<"f", "i", "l", "e", "s">>
sV == <<"-", "v">>
sQ == <<"-", "q">>
sH == <<"-", "h">>
sLow == <<"l", "o", "w">>
sLOW == <<"L", "o", "w">>
sHigh == <<"h", "i", "g", "h">>
sMedium == <<"m", "e", "d", "i", "u", "m">>
sDryRun == <<"-", "-", "d", "r", "y", "-", "R", "u", "n">>
sO == <<"-", "o">>
sOut == <<"o", "u", "t">>
sMode == <<"m", "o", "d", "e">>
sX == <<"-", "x">>
sY == <<"y">>
sM == <<"M">>

\* The programs that use the package.  Each declares arguments taken from
\* its decls (each an option list passed to AddArgument), passes tokens made
\* of the registered option strings and of its values, and sets NoHelp to one
\* of nohelp.
Programs ==
  << \* variadic and optional arities next to other named arguments
     [decls |-> << <<Opt("OptionStrings", <<sFlag>>), Opt("Nargs", ZeroOrMore)>>,
                   <<Opt("OptionStrings", <<sOther>>), Opt("Nargs", ZeroOrOne),
                     Opt("Const", StrV(<<"k">>))>>,
                   <<Opt("OptionStrings", <<sTags>>), Opt("Nargs", OneOrMore)>>,
                   <<Opt("OptionStrings", <<sFiles>>), Opt("Nargs", OneOrMore)>> >>,
      values |-> {<<"a">>, <<"b">>},
      nohelp |-> {TRUE}],
     \* the arguments of TestArgparse
     [decls |-> << <<Opt("Action", "store"), Opt("OptionStrings", <<sC, sCount>>),
                     Opt("Type", "Int")>>,
                   <<Opt("Action", "store"), Opt("OptionStrings", <<sSource>>),
                     Opt("Type", "String")>>,
                   <<Opt("Action", "store"), Opt("OptionStrings", <<sTarget>>),
                     Opt("Type", "String")>>,
                   <<Opt("Action", "store"), Opt("OptionStrings", <<sN, sCount>>)>> >>,
      values |-> {<<"1", "2">>, sH},
      nohelp |-> {FALSE, TRUE}],
     \* required arguments and defaults
     [decls |-> << <<Opt("OptionStrings", <<sReq>>), Opt("Action", "store"),
                     Opt("Required", TRUE), Opt("Default", StrV(<<"x">>))>>,
                   <<Opt("OptionStrings", <<sOpt>>), Opt("Action", "store"),
                     Opt("Default", StrV(<<"x">>))>>,
                   <<Opt("OptionStrings", <<sNeed>>), Opt("Required", TRUE)>>,
                   <<Opt("OptionStrings", <<sREQ>>), Opt("Default", StrV(<<"y">>))>> >>,
      values |-> {<<"v">>},
      nohelp |-> {TRUE}],
     \* choices
     [decls |-> << <<Opt("Action", "store"), Opt("OptionStrings", <<sLevel>>),
                     Opt("Type", "Int"),
                     Opt("Choices", <<[Key |-> sLow, Value |-> IntV(1)],
                                      [Key |-> sHigh, Value |-> IntV(2)]>>)>>,
                   <<Opt("OptionStrings", <<sTags>>), Opt("Nargs", OneOrMore),
                     Opt("ChoiceValues", <<StrV(sLow), StrV(sHigh)>>)>> >>,
      values |-> {sLow, sLOW, sMedium},
      nohelp |-> {TRUE}],
     \* flags
     [decls |-> << <<Opt("OptionStrings", <<sV>>), Opt("Action", "store_true")>>,
                   <<Opt("OptionStrings", <<sQ>>), Opt("Action", "store_false")>>,
                   <<Opt("OptionStrings", <<sSource>>), Opt("Action", "store")>> >>,
      values |-> {<<"a">>},
      nohelp |-> {TRUE}],
     \* append and arities of exactly two
     [decls |-> << <<Opt("Action", "append"), Opt("OptionStrings", <<sT, sTag>>),
                     Opt("Nargs", 1), Opt("Default", StrV(<<"d">>))>>,
                   <<Opt("OptionStrings", <<sTwo>>), Opt("Nargs", 2)>>,
                   <<Opt("OptionStrings", <<sPair>>), Opt("Nargs", 2)>>,
                   <<Opt("OptionStrings", <<sRest>>)>> >>,
      values |-> {<<"a">>, <<"b">>},
      nohelp |-> {TRUE}],
     \* declarations: an option string of several alphanumeric runs, an
     \* explicit Dest, options in an order that matters, choices next to a
     \* MetaVar, option strings missing, mixed or empty, and a positional
     \* with the key of a named argument
     [decls |-> << <<Opt("OptionStrings", <<sDryRun>>), Opt("Action", "store_true")>>,
                   <<Opt("OptionStrings", <<sO>>), Opt("Dest", sOut),
                     Opt("Nargs", ZeroOrMore), Opt("Action", "store")>>,
                   <<Opt("OptionStrings", <<sMode>>), Opt("MetaVar", <<sM>>),
                     Opt("ChoiceValues", <<StrV(sLow), StrV(sHigh)>>)>>,
                   <<Opt("Default", StrV(<<"x">>))>>,
                   <<Opt("OptionStrings", <<sX, sY>>)>>,
                   <<Opt("OptionStrings", <<>>)>>,
                   <<Opt("OptionStrings", <<sOut>>), Opt("Required", TRUE)>> >>,
      values |-> {},
      nohelp |-> {TRUE}] >>

\* ------------------------------------------------------------------ state

VARIABLES
  prog,         \* the calling program, an index of Programs
  NoHelp,       \* ArgumentParser.NoHelp
  Optionals,    \* ArgumentParser.Optionals: option string -> argument
  Positionals,  \* ArgumentParser.Positionals
  pc,           \* "idle", or where the last ParseArgs call is:
                \* "parsing", "done", "failed", or "exited" (os.Exit)
  called,       \* the tokens the last ParseArgs call is to parse
  args,         \* parsingState.args
  argi,         \* parsingState.argi
  posi,         \* parsingState.posi
  ns,           \* parsingState.ns
  allArgs,      \* the slice parse builds for its resolution pass
  resolved,     \* how many entries of allArgs the resolution pass reached
  ret,          \* what the last ParseArgs call returned
  trace,        \* the dispatches of the current parse, in order
  prev,         \* what the call before returned, when it parsed the same tokens
  added         \* the last AddArgument call, its declaration and its error,
                \* until ParseArgs is called

vars ==
  <<prog, NoHelp, Optionals, Positionals, pc, called, args, argi, posi, ns,
    allArgs, resolved, ret, trace, prev, added>>

registry == <<prog, NoHelp, Optionals, Positionals>>

NoReturn == [ns |-> NoNamespace, err |-> NoErr]
NoPrev == [set |-> FALSE, ret |-> NoReturn]
NoAdded == [d |-> 0, err |-> NoErr]

Init ==
  /\ prog \in DOMAIN Programs
  /\ NoHelp \in Programs[prog].nohelp
  /\ Optionals = <<>>
  /\ Positionals = <<>>
  /\ pc = "idle"
  /\ called = <<>>
  /\ args = <<>>
  /\ argi = 0
  /\ posi = 0
  /\ ns = EmptyNS
  /\ allArgs = <<>>
  /\ resolved = 0
  /\ ret = NoReturn
  /\ trace = <<>>
  /\ prev = NoPrev
  /\ added = NoAdded

NumArgs == Cardinality(NamedArgs(Optionals)) + Len(Positionals)

\* The first of the option strings ops that the named map opts holds already.
FirstRegistered(opts, ops) ==
  ops[CHOOSE i \in DOMAIN ops :
        ops[i] \in DOMAIN opts /\ \A j \in 1..(i - 1) : ops[j] \notin DOMAIN opts]

\* AddArgument registering, on a collision, the option strings that are free.
AddArgumentPartial ==
  /\ pc = "idle"
  /\ NumArgs < MaxArgs
  /\ \E d \in DOMAIN Programs[prog].decls :
       LET r == ApplyOptions(ZeroArgument, Programs[prog].decls[d])
           a == WithDefaults(r.a)
           ops == Range(a.OptionStrings)
       IN IF ~r.ok
            THEN /\ added' = [d |-> d, err |-> Err("InvalidOption", <<>>)]
                 /\ UNCHANGED <<Optionals, Positionals>>
          ELSE IF Optional(a)
            THEN /\ Optionals' =
                      [op \in DOMAIN Optionals \cup ops |->
                         IF op \in DOMAIN Optionals THEN Optionals[op] ELSE a]
                 /\ added' = [d |-> d,
                              err |-> IF \E op \in ops : op \in DOMAIN Optionals
                                        THEN Err("DuplicateDeclaration",
                                                 FirstRegistered(Optionals, a.OptionStrings))
                                        ELSE NoErr]
                 /\ UNCHANGED Positionals
          ELSE /\ Positionals' = Positionals \o <<a>>
               /\ added' = [d |-> d, err |-> NoErr]
               /\ UNCHANGED Optionals
  /\ UNCHANGED <<prog, NoHelp, pc, called, args, argi, posi, ns, allArgs,
                 resolved, ret, trace, prev>>

\* ArgumentParser.AddArgument(options...), at configuration time.
AddArgument ==
  /\ pc = "idle"
  /\ NumArgs < MaxArgs
  /\ \E d \in DOMAIN Programs[prog].decls :
       LET r == ApplyOptions(ZeroArgument, Programs[prog].decls[d])
           a == WithDefaults(r.a)
           ops == Range(a.OptionStrings)
       IN IF ~r.ok
            THEN /\ added' = [d |-> d, err |-> Err("InvalidOption", <<>>)]
                 /\ UNCHANGED <<Optionals, Positionals>>
          ELSE IF Optional(a)
            THEN IF \E op \in ops : op \in DOMAIN Optionals
                   THEN /\ added' = [d |-> d,
                                     err |-> Err("DuplicateDeclaration",
                                                 FirstRegistered(Optionals, a.OptionStrings))]
                        /\ UNCHANGED <<Optionals, Positionals>>
                   ELSE /\ Optionals' =
                             [op \in DOMAIN Optionals \cup ops |->
                                IF op \in ops THEN a ELSE Optionals[op]]
                        /\ added' = [d |-> d, err |-> NoErr]
                        /\ UNCHANGED Positionals
          ELSE /\ Positionals' = Positionals \o <<a>>
               /\ added' = [d |-> d, err |-> NoErr]
               /\ UNCHANGED Optionals
  /\ UNCHANGED <<prog, NoHelp, pc, called, args, argi, posi, ns, allArgs,
                 resolved, ret, trace, prev>>

\* The token sequences the program may pass or be started with.
Tokens == DOMAIN Optionals \cup Programs[prog].values
TokenSeqs == UNION {[1..n -> Tokens] : n \in 0..MaxTokens}

\* ArgumentParser.ParseArgs(args...) up to the call of parse, on the tokens
\* toks: the help pass may end the process, else a fresh parsingState is
\* initialised.
Call(toks) ==
  /\ called' = toks
  /\ IF handleHelp(NoHelp, toks)
       THEN /\ pc' = "exited"
            /\ args' = <<>>
       ELSE /\ pc' = "parsing"
            /\ args' = toks
  /\ argi' = 0
  /\ posi' = 0
  /\ ns' = EmptyNS
  /\ allArgs' = <<>>
  /\ resolved' = 0
  /\ ret' = NoReturn
  /\ trace' = <<>>
  /\ added' = NoAdded
  /\ UNCHANGED registry

\* The program's first ParseArgs call.  Called with no tokens, ParseArgs
\* parses the process's own arguments (os.Args[1:]), which may be any tokens.
ParseArgs ==
  /\ pc = "idle"
  /\ \E given \in TokenSeqs :
       \E toks \in (IF Len(given) = 0 THEN TokenSeqs ELSE {given}) : Call(toks)
  /\ prev' = NoPrev

\* The program calls ParseArgs again on the same parser with the same tokens.
\* (A call with other tokens starts, like a first call, from the unchanged
\* registry with a fresh parsingState.)
ParseArgsAgain ==
  /\ pc \in {"done", "failed"}
  /\ Call(called)
  /\ prev' = [set |-> TRUE, ret |-> ret]

\* Iterations of the token loop that select differently: "positional" takes
\* the next positional while one is left, whatever the token; "skip" passes
\* over a token nothing is left for; "named" moves the positional index on
\* named dispatches too.
ParseTokenVariant(v) ==
  /\ pc = "parsing"
  /\ argi < Len(args)
  /\ LET arg == args[argi + 1]
         ok == IF v = "positional" /\ posi < Len(Positionals)
                 THEN FALSE ELSE arg \in DOMAIN Optionals
     IN IF ~ok /\ posi >= Len(Positionals)
          THEN IF v = "skip"
                 THEN /\ argi' = argi + 1
                      /\ UNCHANGED <<pc, ret, posi, ns, trace>>
                 ELSE /\ pc' = "failed"
                      /\ ret' = ParseArgsReturn(Err("UnexpectedToken", arg), ns)
                      /\ UNCHANGED <<argi, posi, ns, trace>>
          ELSE LET a == IF ok THEN Optionals[arg] ELSE Positionals[posi + 1]
                   from == IF ok THEN argi + 1 ELSE argi
                   h == handle(Optionals, a, args, from, ns)
               IN /\ posi' = IF ok /\ (v # "named" \/ posi >= Len(Positionals))
                                THEN posi ELSE posi + 1
                  /\ argi' = h.argi
                  /\ ns' = h.ns
                  /\ trace' = trace \o
                       <<[named |-> ok, ref |-> IF ok THEN arg ELSE posi + 1,
                          at |-> argi, toks |-> h.toks, acted |-> h.acted,
                          err |-> h.err]>>
                  /\ IF h.err # NoErr
                       THEN /\ pc' = "failed"
                            /\ ret' = ParseArgsReturn(h.err, h.ns)
                       ELSE UNCHANGED <<pc, ret>>
  /\ UNCHANGED <<registry, called, args, allArgs, resolved, prev, added>>

ParseTokenPositionalFirst == ParseTokenVariant("positional")
ParseTokenSkip == ParseTokenVariant("skip")
ParseTokenNamedCounts == ParseTokenVariant("named")

\* One iteration of the loop of parsingState.parse: the token at the cursor
\* selects a named argument or the next positional, which handle then runs.
ParseToken ==
  /\ pc = "parsing"
  /\ argi < Len(args)
  /\ LET arg == args[argi + 1]
         ok == arg \in DOMAIN Optionals
     IN IF ~ok /\ posi >= Len(Positionals)
          THEN /\ pc' = "failed"
               /\ ret' = ParseArgsReturn(Err("UnexpectedToken", arg), ns)
               /\ UNCHANGED <<argi, posi, ns, trace>>
          ELSE LET a == IF ok THEN Optionals[arg] ELSE Positionals[posi + 1]
                   from == IF ok THEN argi + 1 ELSE argi
                   h == handle(Optionals, a, args, from, ns)
               IN /\ posi' = IF ok THEN posi ELSE posi + 1
                  /\ argi' = h.argi
                  /\ ns' = h.ns
                  /\ trace' = trace \o
                       <<[named |-> ok, ref |-> IF ok THEN arg ELSE posi + 1,
                          at |-> argi, toks |-> h.toks, acted |-> h.acted,
                          err |-> h.err]>>
                  /\ IF h.err # NoErr
                       THEN /\ pc' = "failed"
                            /\ ret' = ParseArgsReturn(h.err, h.ns)
                       ELSE UNCHANGED <<pc, ret>>
  /\ UNCHANGED <<registry, called, args, allArgs, resolved, prev, added>>

\* The rest of parse once the tokens are used up, the resolution pass, and
\* the return of ParseArgs.
ParseResolve ==
  /\ pc = "parsing"
  /\ argi >= Len(args)
  /\ \E named \in getOptionals(Optionals, FALSE) :
       LET all == named \o Positionals
           r == resolve(all, 1, ns)
       IN /\ allArgs' = all
          /\ resolved' = IF r.err # NoErr THEN r.at ELSE Len(all)
          /\ ns' = r.ns
          /\ ret' = ParseArgsReturn(r.err, r.ns)
          /\ pc' = IF r.err # NoErr THEN "failed" ELSE "done"
  /\ UNCHANGED <<registry, called, args, argi, posi, trace, prev, added>>

Next == AddArgument \/ ParseArgs \/ ParseArgsAgain \/ ParseToken \/ ParseResolve

Spec == Init /\ [][Next]_vars

\* A step of a running parse as pc and trace show it: the token loop makes a
\* dispatch (ParseToken), or the parse returns without one (ParseToken on a
\* token nothing is left for, ParseResolve).
ParseStep ==
  /\ pc = "parsing"
  /\ \/ pc' \in {"done", "failed"} /\ trace' = trace
     \/ pc' \in {"parsing", "failed"} /\ Len(trace') = Len(trace) + 1

\* A call of ParseArgs runs on: Go executes parse statement after statement,
\* so a parse that can take a step takes one.
FairSpec == Spec /\ WF_<<pc, trace>>(ParseStep)

\* ======================================================== checked properties

\* The argument a dispatch selected.
ArgOf(e) == IF e.named THEN Optionals[e.ref] ELSE Positionals[e.ref]

\* The cursor at which the values of a dispatch start: after the option string
\* of a named argument, on the selecting token of a positional.
ValuesFrom(e) == IF e.named THEN e.at + 1 ELSE e.at

IsNamedToken(tok) == tok \in DOMAIN Optionals

\* The step is an iteration of the token loop; Last is its dispatch.
Dispatched == Len(trace') = Len(trace) + 1
Last == trace'[Len(trace')]

sFlagDest == <<"f", "l", "a", "g">>
sOtherDest == <<"o", "t", "h", "e", "r">>

\* C1 (tie-break): the values of an argument of arity zero-or-one, zero-or-more
\* or one-or-more are the tokens from the cursor up to, and not including, the
\* first token that is a registered option string (at most one token for
\* zero-or-one); none of them is a registered option string; and the token the
\* run stopped at is dispatched next, as the named argument it names.  With
\* --flag (zero-or-more) and --other, [--flag, a, b, --other] gives
\* flag = [a, b] and dispatches --other.
TieBreak ==
  /\ \A i \in DOMAIN trace :
       LET e == trace[i]
           a == ArgOf(e)
           end == ValuesFrom(e) + Len(e.toks)
           stopped == end >= Len(args) \/ IsNamedToken(args[end + 1])
       IN a.Nargs \in {ZeroOrOne, ZeroOrMore, OneOrMore} =>
            /\ e.toks = SubSeq(args, ValuesFrom(e) + 1, end)
            /\ \A k \in DOMAIN e.toks : ~IsNamedToken(e.toks[k])
            /\ a.Nargs = ZeroOrOne => Len(e.toks) <= 1 /\ (Len(e.toks) = 0 => stopped)
            /\ a.Nargs # ZeroOrOne => stopped
            /\ i = Len(trace) /\ pc = "parsing" => argi = end
            /\ i < Len(trace) =>
                 /\ trace[i + 1].at = end
                 /\ IsNamedToken(args[end + 1]) =>
                      trace[i + 1].named /\ trace[i + 1].ref = args[end + 1]
  /\ ( /\ sFlag \in DOMAIN Optionals
       /\ sOther \in DOMAIN Optionals
       /\ Optionals[sFlag].Nargs = ZeroOrMore
       /\ args = <<sFlag, <<"a">>, <<"b">>, sOther>>
       /\ pc \in {"done", "failed"} )
     => /\ pc = "done"
        /\ sFlagDest \in DOMAIN ns
        /\ ns[sFlagDest] = SliceV(<<StrV(<<"a">>), StrV(<<"b">>)>>)
        /\ Len(trace) = 2 /\ trace[2].named /\ trace[2].ref = sOther
        /\ sOtherDest \in DOMAIN ns

\* C1 witness: [--flag, a, b, --other] parsed, flag = [a, b], --other dispatched.
TieBreakWitness ==
  /\ pc = "done"
  /\ args = <<sFlag, <<"a">>, <<"b">>, sOther>>
  /\ Len(trace) = 2
  /\ trace[1].toks = <<<<"a">>, <<"b">>>>
  /\ trace[2].ref = sOther
  /\ ns[sFlagDest] = SliceV(<<StrV(<<"a">>), StrV(<<"b">>)>>)

\* C2 (duplicate guard): when the store action runs for an argument whose key is
\* already in the namespace, the parse fails with AlreadySet naming the key,
\* nothing is returned but the error, and the namespace keeps the earlier value;
\* whichever option string selected the argument.
DuplicateGuard ==
  [][ (Dispatched /\ ArgOf(Last).Action = "store" /\ Last.acted
         /\ Has(ns, ArgOf(Last)))
      => /\ pc' = "failed"
         /\ ret' = [ns |-> NoNamespace,
                    err |-> Err("AlreadySet", ArgOf(Last).Dest)]
         /\ ns' = ns ]_vars

\* C2 witness: the second supply, through the other option string of the same
\* argument, failed with AlreadySet and the first value is still there.
DuplicateGuardWitness ==
  /\ pc = "failed"
  /\ ret.err.kind = "AlreadySet"
  /\ Len(trace) = 2
  /\ trace[1].named /\ trace[2].named
  /\ trace[1].ref # trace[2].ref
  /\ args = <<sCount, <<"1", "2">>, sC, <<"1", "2">>>>
  /\ ns[<<"c", "o", "u", "n", "t">>] = IntV(12)

\* Every argument the registry holds.
AllArguments == NamedArgs(Optionals) \cup Range(Positionals)

\* The step is the resolution pass (and the return of ParseArgs).
Resolving == pc = "parsing" /\ argi >= Len(args) /\ pc' \in {"done", "failed"}

\* The keys in the namespace when the resolution pass reaches entry i of
\* allArgs': those the tokens wrote and those of the defaults before i.
KeysAt(i) ==
  DOMAIN ns \cup {allArgs'[j].Dest : j \in {k \in 1..(i - 1) : allArgs'[k].Default # Nil}}

\* C3 as claimed: once the tokens are used up, a required argument whose key
\* is not in the namespace makes the parse fail with MissingRequired.
RequiredEnforcedAsClaimed ==
  [][ (Resolving /\ \E a \in AllArguments : a.Required /\ ~Has(ns, a))
      => pc' = "failed" /\ ret'.err.kind = "MissingRequired" ]_vars

\* C3 (required enforcement), amended: when the resolution pass reaches a
\* required argument whose key is not in the namespace at that moment, the
\* parse fails there with MissingRequired naming it, whatever its default, and
\* only the error is returned; so after a successful parse every required
\* argument's key is present.  One required named argument and no tokens fail.
RequiredEnforced ==
  [][ Resolving =>
        /\ \A i \in 1..resolved' :
             (allArgs'[i].Required /\ allArgs'[i].Dest \notin KeysAt(i))
             => /\ i = resolved'
                /\ pc' = "failed"
                /\ ret' = [ns |-> NoNamespace,
                           err |-> Err("MissingRequired", allArgs'[i].Dest)]
                /\ allArgs'[i].Dest \notin DOMAIN ns'
        /\ pc' = "done" => \A a \in AllArguments : a.Required => Has(ns', a)
        /\ (Len(allArgs') = 1 /\ allArgs'[1].Required /\ args = <<>>)
           => pc' = "failed" /\ ret'.err.kind = "MissingRequired" ]_vars

\* C3 witness: a required argument with a default and no tokens: the parse
\* failed with MissingRequired and the default was not injected.
RequiredEnforcedWitness ==
  /\ pc = "failed"
  /\ args = <<>>
  /\ Len(allArgs) = 1
  /\ allArgs[1].Required /\ allArgs[1].Default # Nil
  /\ ret.err = Err("MissingRequired", allArgs[1].Dest)
  /\ ns = EmptyNS

\* The registry holds one argument, named, not required, with a default, and
\* the parse of no tokens has returned.
OneDefaultedParsed ==
  /\ Positionals = <<>>
  /\ Cardinality(NamedArgs(Optionals)) = 1
  /\ \A a \in NamedArgs(Optionals) : ~a.Required /\ a.Default # Nil
  /\ called = <<>>
  /\ pc \in {"done", "failed"}

TheNamed == CHOOSE a \in NamedArgs(Optionals) : TRUE

Labels(a) == {a.Choices.items[i].Key : i \in DOMAIN a.Choices.items}
LabelValue(a, tok) ==
  CHOOSE v \in {a.Choices.items[i].Value : i \in DOMAIN a.Choices.items} :
    \E i \in DOMAIN a.Choices.items :
      a.Choices.items[i].Key = tok /\ a.Choices.items[i].Value = v

\* C5 (choice enforcement): when an argument with choices takes value tokens,
\* a token that is not exactly one of the labels fails the parse with
\* InvalidChoice and leaves the namespace as it was; when every token is a
\* label the action gets the values that go with the labels (the type
\* converter is not used), and store commits them.
ChoiceEnforced ==
  [][ (Dispatched /\ ArgOf(Last).Choices.set /\ Len(Last.toks) > 0) =>
        LET a == ArgOf(Last)
            vals == [k \in DOMAIN Last.toks |-> LabelValue(a, Last.toks[k])]
        IN IF \E k \in DOMAIN Last.toks : Last.toks[k] \notin Labels(a)
             THEN /\ pc' = "failed"
                  /\ ret' = [ns |-> NoNamespace,
                             err |-> Err("InvalidChoice", a.Dest)]
                  /\ ~Last.acted
                  /\ ns' = ns
             ELSE /\ Last.acted
                  /\ (a.Action = "store" /\ ~Has(ns, a)) =>
                       /\ Last.err = NoErr
                       /\ ns' = Set(ns, a, IF a.Nargs = 1 /\ Len(vals) = 1
                                             THEN vals[1] ELSE SliceV(vals)) ]_vars

\* C5 witness: --level Low failed with InvalidChoice (labels are low and high).
ChoiceEnforcedWitness ==
  /\ pc = "failed"
  /\ args = <<sLevel, sLOW>>
  /\ ret.err = Err("InvalidChoice", <<"l", "e", "v", "e", "l">>)
  /\ ns = EmptyNS

\* C6 (arity boundary): a one-or-more argument selected with no value to take,
\* because its option string is the last token or because the next token is a
\* registered option string, fails the parse with InsufficientValues; its
\* action does not run and the namespace stays as it was.
ArityBoundary ==
  [][ (Dispatched /\ ArgOf(Last).Nargs = OneOrMore
         /\ (ValuesFrom(Last) >= Len(args)
               \/ IsNamedToken(args[ValuesFrom(Last) + 1])))
      => /\ pc' = "failed"
         /\ ret'.err.kind = "InsufficientValues"
         /\ ~ret'.ns.some
         /\ ~Last.acted
         /\ Last.toks = <<>>
         /\ ns' = ns ]_vars

\* C6 witness: --tags followed by --flag failed with InsufficientValues.
ArityBoundaryWitness ==
  /\ pc = "failed"
  /\ args = <<sTags, sFlag>>
  /\ Len(trace) = 1
  /\ ret.err.kind = "InsufficientValues"
  /\ ns = EmptyNS

\* The tokens toks are as many as the arity of a asks for.
SatisfiesArity(a, toks) ==
  CASE a.Nargs = OneOrMore -> Len(toks) >= 1
    [] a.Nargs = ZeroOrMore -> TRUE
    [] a.Nargs = ZeroOrOne -> Len(toks) <= 1
    [] OTHER -> Len(toks) = a.Nargs

\* C7 (round-trip): an argument supplied in the tokens with as many values as
\* its arity asks for, all of them convertible, and (for store) not supplied
\* before, is handled without error and its key is then present; for a store
\* argument given at least one token, Get through the argument yields the
\* converted value (arity one) or the sequence of the converted values.
RoundTrip ==
  [][ (Dispatched
         /\ SatisfiesArity(ArgOf(Last), Last.toks)
         /\ createValues(ArgOf(Last), Last.toks).err = NoErr
         /\ (ArgOf(Last).Action = "store" => ~Has(ns, ArgOf(Last))))
      => LET a == ArgOf(Last)
             vs == createValues(a, Last.toks).vs
         IN /\ Last.err = NoErr
            /\ pc' # "failed"
            /\ Has(ns', a)
            /\ (a.Action = "store" /\ Len(vs) > 0)
               => Get(ns', a) = IF a.Nargs = 1 THEN vs[1] ELSE SliceV(vs) ]_vars

\* The argument -c/--count of TestArgparse is registered as the test declares it.
CountDeclared ==
  /\ sCount \in DOMAIN Optionals
  /\ Optionals[sCount].Action = "store"
  /\ Optionals[sCount].OptionStrings = <<sC, sCount>>
  /\ Optionals[sCount].Type = "Int"

\* C8 (TestArgparse): on a parser with help handling left on and -c/--count
\* declared as in the test, ParseArgs("--count", "12", "-h") returns a nil
\* error and a namespace where Get(count) is the int 12.
TestArgparse ==
  (CountDeclared /\ ~NoHelp
     /\ called = <<sCount, <<"1", "2">>, sH>>
     /\ pc \notin {"idle", "parsing"})
  => /\ pc = "done"
     /\ ret.err = NoErr
     /\ ret.ns.some
     /\ Get(ret.ns.m, Optionals[sCount]) = IntV(12)

\* C9 (determinism): a second parse of the same tokens on the same registry
\* returns what the first returned, namespace or error, and the resolution pass
\* went over the named arguments sorted by key, then the positionals.
Determinism ==
  pc \in {"done", "failed"} =>
    /\ prev.set => ret = prev.ret
    /\ allArgs # <<>> =>
         /\ SubSeq(allArgs, Len(allArgs) - Len(Positionals) + 1, Len(allArgs))
              = Positionals
         /\ \A i, j \in 1..(Len(allArgs) - Len(Positionals)) :
              i < j => ~StrLess(allArgs[j].Dest, allArgs[i].Dest)

\* C10 (fail-fast): only the last dispatch of a parse can carry an error, and
\* it ends the parse with that error; a parse that failed on a token never
\* runs the resolution pass and one that failed in the pass injected nothing
\* from the failing argument on; a failed ParseArgs returns the error and no
\* namespace; nothing follows a failure but a fresh call.
FailFast ==
  [][ /\ pc' = "failed" => (ret'.err # NoErr /\ ret'.ns = NoNamespace)
      /\ \A i \in 1..(Len(trace') - 1) : trace'[i].err = NoErr
      /\ (Dispatched /\ Last.err # NoErr)
         => /\ pc' = "failed"
            /\ ret'.err = Last.err
            /\ allArgs' = <<>> /\ resolved' = 0
      /\ (Resolving /\ pc' = "failed")
         => DOMAIN ns' \subseteq
              DOMAIN ns \cup {allArgs'[i].Dest : i \in 1..(resolved' - 1)}
      /\ pc = "failed"
         => /\ pc' \in {"parsing", "exited"}
            /\ trace' = <<>> /\ ns' = EmptyNS /\ argi' = 0 /\ posi' = 0 ]_vars

\* C10 witness: a parse failed on a token after an earlier argument had written
\* its key and with tokens still unread; only the error was returned.
FailFastWitness ==
  /\ pc = "failed"
  /\ Len(trace) >= 2
  /\ trace[Len(trace)].err # NoErr
  /\ ns # EmptyNS
  /\ argi < Len(args)
  /\ ret.err # NoErr /\ ~ret.ns.some

\* The step is an AddArgument call; Declared is the argument it declares.
Adding == pc = "idle" /\ pc' = "idle" /\ added'.d # 0
Declared ==
  WithDefaults(ApplyOptions(ZeroArgument, Programs[prog].decls[added'.d]).a)

\* C11 (duplicate declaration): AddArgument of a named argument one of whose
\* option strings is registered already fails with DuplicateDeclaration; a
\* failed AddArgument leaves the named map and the positionals as they were;
\* a successful one leaves every registered option string with its argument
\* and maps all the new ones to the argument declared.
DuplicateDeclaration ==
  [][ Adding =>
        LET a == Declared
            ops == Range(a.OptionStrings)
        IN /\ (Optional(a) /\ ops \cap DOMAIN Optionals # {})
              => added'.err.kind = "DuplicateDeclaration"
           /\ added'.err # NoErr
              => (Optionals' = Optionals /\ Positionals' = Positionals)
           /\ \A op \in DOMAIN Optionals :
                op \in DOMAIN Optionals' /\ Optionals'[op] = Optionals[op]
           /\ (added'.err = NoErr /\ Optional(a))
              => /\ DOMAIN Optionals' = DOMAIN Optionals \cup ops
                 /\ \A op \in ops : Optionals'[op] = a
                 /\ Positionals' = Positionals ]_vars

\* C11 witness: with -c/--count registered, the declaration of -n/--count
\* failed and -n was not registered.
DuplicateDeclarationWitness ==
  /\ pc = "idle"
  /\ added.err = Err("DuplicateDeclaration", sCount)
  /\ sCount \in DOMAIN Optionals
  /\ Optionals[sCount].OptionStrings = <<sC, sCount>>
  /\ sN \notin DOMAIN Optionals

\* C12 (positionals are implicitly required): when the tokens are used up and
\* a positional argument of arity exactly-N (N >= 1) or one-or-more has not
\* been dispatched, so has received no token, the parse fails with
\* MissingRequired, whether or not the positional is flagged required.
PositionalRequired ==
  [][ (Resolving
         /\ \E j \in (posi + 1)..Len(Positionals) :
              Positionals[j].Nargs >= 1 \/ Positionals[j].Nargs = OneOrMore)
      => /\ pc' = "failed"
         /\ ret'.err.kind = "MissingRequired" ]_vars

Flags == {"store_true", "store_false"}

\* C13 (store_true / store_false): a flag has arity zero; selected by one of
\* its option strings it takes no token, its action succeeds and its key maps
\* to true (store_true) or false (store_false); when the tokens did not
\* select it the resolution pass does not fail on it and the successful parse
\* maps its key to the opposite boolean, its default.
FlagConstants ==
  [][ /\ (Dispatched /\ ArgOf(Last).Action \in Flags)
         => /\ ArgOf(Last).Nargs = 0
            /\ Last.toks = <<>>
            /\ Last.err = NoErr
            /\ pc' # "failed"
            /\ Get(ns', ArgOf(Last)) = BoolV(ArgOf(Last).Action = "store_true")
      /\ Resolving
         => /\ pc' = "failed" => allArgs'[resolved'].Action \notin Flags
            /\ pc' = "done"
               => \A a \in AllArguments :
                    (a.Action \in Flags /\ ~Has(ns, a))
                    => Get(ns', a) = BoolV(a.Action = "store_false") ]_vars

\* The converted values the dispatches of the current parse handed to a, in
\* order of occurrence (a of arity one: one token each).
Supplied(a) ==
  LET Of(e) == ArgOf(e) = a
      sel == SelectSeq(trace, Of)
  IN [i \in DOMAIN sel |-> createValue(a, sel[i].toks[1]).v]

AppendsOne(a) == a.Action = "append" /\ a.Nargs = 1

\* C14 (append accumulates): each supply of an append argument of arity one
\* succeeds, whatever its key holds already (never AlreadySet), and puts the
\* value at the end of the sequence under its key; after a successful parse the
\* key of a supplied argument holds [v1, ..., vk] in order of occurrence, and
\* that of an argument never supplied holds [d] when it has a default d.
AppendAccumulates ==
  [][ /\ (Dispatched /\ AppendsOne(ArgOf(Last)) /\ Len(Last.toks) = 1)
         => /\ Last.err = NoErr
            /\ pc' # "failed"
            /\ Get(ns', ArgOf(Last)) =
                 SliceV((IF Has(ns, ArgOf(Last)) THEN Get(ns, ArgOf(Last)).v ELSE <<>>)
                          \o <<createValue(ArgOf(Last), Last.toks[1]).v>>)
      /\ (Resolving /\ pc' = "done")
         => \A a \in AllArguments :
              AppendsOne(a) =>
                IF Supplied(a) # <<>>
                  THEN Get(ns', a) = SliceV(Supplied(a))
                  ELSE /\ a.Default # Nil => Get(ns', a) = SliceV(<<a.Default>>)
                       /\ a.Default = Nil => ~Has(ns', a) ]_vars

\* C14 witness: --tag a -t b gave tag = [a, b], without the default d.
AppendAccumulatesWitness ==
  /\ pc = "done"
  /\ args = <<sTag, <<"a">>, sT, <<"b">>>>
  /\ ret.ns.some
  /\ ret.ns.m[<<"t", "a", "g">>] = SliceV(<<StrV(<<"a">>), StrV(<<"b">>)>>)

\* C15 (the registry is immutable during parsing): a ParseArgs call, from its
\* start to its return, leaves the named map, the positionals and so every
\* field of every argument as they were; each call starts from a fresh, empty
\* namespace; and a parse on the registry an earlier call has used returns
\* what that call, made on the registry as built, returned for the same tokens.
RegistryImmutable ==
  [][ /\ (pc # "idle" \/ pc' # "idle")
         => (Optionals' = Optionals /\ Positionals' = Positionals
               /\ NoHelp' = NoHelp)
      /\ (pc # "parsing" /\ pc' = "parsing")
         => (ns' = EmptyNS /\ argi' = 0 /\ posi' = 0)
      /\ (pc = "parsing" /\ pc' \in {"done", "failed"} /\ prev.set)
         => ret' = prev.ret ]_vars

\* C16 (arity exactly N, N >= 1): counting from where the values start (after
\* the option string of a named argument, on the selecting token of a
\* positional), when N tokens or more remain the argument takes exactly the
\* next N, registered option strings among them, and the cursor ends N further;
\* when fewer remain the parse fails with InsufficientValues, the argument
\* takes none, the cursor stays and the action does not run.
ExactlyN ==
  [][ (Dispatched /\ ArgOf(Last).Nargs >= 1) =>
        LET n == ArgOf(Last).Nargs
            from == ValuesFrom(Last)
        IN IF Len(args) - from >= n
             THEN /\ Last.toks = SubSeq(args, from + 1, from + n)
                  /\ argi' = from + n
                  /\ Last.err.kind # "InsufficientValues"
             ELSE /\ pc' = "failed"
                  /\ ret' = [ns |-> NoNamespace,
                             err |-> Err("InsufficientValues", ArgOf(Last).Dest)]
                  /\ Last.toks = <<>>
                  /\ argi' = from
                  /\ ~Last.acted
                  /\ ns' = ns ]_vars

\* C16 witness: with --tag registered, --two a --tag gave two = [a, --tag] and
\* --tag was not dispatched.
ExactlyNWitness ==
  /\ pc = "done"
  /\ sTag \in DOMAIN Optionals
  /\ args = <<sTwo, <<"a">>, sTag>>
  /\ Len(trace) = 1
  /\ trace[1].toks = <<<<"a">>, sTag>>
  /\ ns[<<"t", "w", "o">>] = SliceV(<<StrV(<<"a">>), StrV(sTag)>>)

\* C17 as claimed: a token equal to a registered option string never selects
\* a positional argument and is never among the tokens a positional takes and
\* stores.
PositionalNeverNamedAsClaimed ==
  [][ (Dispatched /\ ~Last.named) =>
        /\ ~IsNamedToken(args[Last.at + 1])
        /\ (Last.acted /\ Last.err = NoErr)
           => \A k \in DOMAIN Last.toks : ~IsNamedToken(Last.toks[k]) ]_vars

\* C17 (positionals and option strings), amended: a token equal to a
\* registered option string never selects a positional argument, and is never
\* among the tokens taken by a positional of arity zero-or-one, zero-or-more,
\* one-or-more or exactly one; a positional of arity exactly N >= 2 takes the
\* N - 1 tokens after its selecting token whatever they are, so only its first
\* token is sure not to be an option string.
PositionalNeverNamed ==
  [][ (Dispatched /\ ~Last.named) =>
        /\ ~IsNamedToken(args[Last.at + 1])
        /\ ArgOf(Last).Nargs < 2
           => \A k \in DOMAIN Last.toks : ~IsNamedToken(Last.toks[k])
        /\ ArgOf(Last).Nargs >= 2
           => (Last.toks # <<>>
                 => /\ ~IsNamedToken(Last.toks[1])
                    /\ Last.toks = SubSeq(args, Last.at + 1,
                                          Last.at + ArgOf(Last).Nargs)) ]_vars

\* C17 witness: the positional files (one-or-more) took a and b and stopped
\* before --flag, which was dispatched as the named argument.
PositionalNeverNamedWitness ==
  /\ args = <<<<"a">>, <<"b">>, sFlag>>
  /\ Len(trace) = 2
  /\ ~trace[1].named /\ trace[1].toks = <<<<"a">>, <<"b">>>>
  /\ trace[2].named /\ trace[2].ref = sFlag

\* The parse is at the head of its token loop with a token at the cursor.
AtDispatch == pc = "parsing" /\ argi < Len(args)

\* C18 (UnexpectedToken): at the head of the token loop, a token that is no
\* registered option string when every positional has been dispatched fails
\* the parse with UnexpectedToken, nothing being dispatched; a token that is a
\* registered option string is dispatched to the argument it names, and a
\* dispatch never raises UnexpectedToken.
UnexpectedToken ==
  [][ AtDispatch =>
        LET tok == args[argi + 1]
        IN /\ (~IsNamedToken(tok) /\ posi >= Len(Positionals))
              => /\ pc' = "failed"
                 /\ ret' = [ns |-> NoNamespace, err |-> Err("UnexpectedToken", tok)]
                 /\ ~Dispatched
                 /\ ns' = ns /\ argi' = argi
           /\ IsNamedToken(tok)
              => /\ Dispatched
                 /\ Last.named /\ Last.ref = tok /\ Last.at = argi
                 /\ ret'.err.kind # "UnexpectedToken"
           /\ (~IsNamedToken(tok) /\ posi < Len(Positionals))
              => (Dispatched /\ ~Last.named /\ ret'.err.kind # "UnexpectedToken") ]_vars

\* C18 witness: the positionals were all dispatched and one more token that
\* names nothing failed the parse.
UnexpectedTokenWitness ==
  /\ pc = "failed"
  /\ Len(Positionals) >= 1
  /\ posi = Len(Positionals)
  /\ argi < Len(args)
  /\ ret.err = Err("UnexpectedToken", args[argi + 1])

IsPositionalDispatch(e) == ~e.named

\* C19 (positionals are filled in declaration order): the j-th positional
\* dispatch of a parse selects the j-th declared positional and moves the
\* positional index from j - 1 to j; a named dispatch leaves the index alone;
\* within a parse the index never goes back nor past the positionals.
PositionalOrder ==
  [][ /\ (Dispatched /\ ~Last.named)
         => /\ Last.ref = Len(SelectSeq(trace, IsPositionalDispatch)) + 1
            /\ Last.ref = posi + 1
            /\ posi' = posi + 1
      /\ (Dispatched /\ Last.named) => posi' = posi
      /\ Resolving => posi' = posi
      /\ pc = "parsing" => (posi' >= posi /\ posi' <= Len(Positionals)) ]_vars

\* C19 witness: a positional token, a named argument with its value, then a
\* positional token: the first and the second positional took them.
PositionalOrderWitness ==
  /\ pc = "done"
  /\ Len(trace) = 3
  /\ ~trace[1].named /\ trace[1].ref = 1
  /\ trace[2].named /\ Len(trace[2].toks) = 1
  /\ ~trace[3].named /\ trace[3].ref = 2
  /\ Positionals[1].Dest \in DOMAIN ns /\ Positionals[2].Dest \in DOMAIN ns

\* C20 (termination): every parse that starts ends, done or failed; a dispatch
\* starts at the cursor and moves it forward by exactly the tokens it consumes
\* (the option string of a named argument and the values taken), so no token
\* is consumed twice; the cursor never goes back nor past the tokens; and a
\* parse makes no more dispatches than it has tokens and positionals.
Termination ==
  /\ [][ pc = "parsing" =>
           /\ ParseStep
           /\ argi' >= argi /\ argi' <= Len(args)
           /\ Dispatched
              => /\ Last.at = argi
                 /\ argi' = argi + (IF Last.named THEN 1 ELSE 0) + Len(Last.toks)
                 /\ Last.toks = SubSeq(args, ValuesFrom(Last) + 1, argi')
                 /\ Len(trace') <= Len(args) + Len(Positionals) ]_vars
  /\ (pc = "parsing" ~> pc \in {"done", "failed"})

\* C20 witness: a parse of four tokens ended with the cursor behind the last.
TerminationWitness ==
  /\ pc = "done"
  /\ Len(args) = 4
  /\ argi = Len(args)
  /\ Len(trace) >= 2

\* The values handle passes to the action of a dispatch: the converted tokens,
\* or the constant alone when no token was taken.
Passed(e) ==
  IF e.toks = <<>> THEN <<ArgOf(e).Const>>
  ELSE createValues(ArgOf(e), e.toks).vs

\* C21 (store writes a scalar or a sequence): when store runs without error
\* it writes the value itself if the arity is exactly one and one value was
\* passed, and otherwise (any other arity, or several values) the sequence of
\* all the values passed, in token order.
StoreScalarOrSequence ==
  [][ (Dispatched /\ ArgOf(Last).Action = "store" /\ Last.acted
         /\ Last.err = NoErr)
      => Get(ns', ArgOf(Last)) =
           IF ArgOf(Last).Nargs = 1 /\ Len(Passed(Last)) = 1
             THEN Passed(Last)[1]
             ELSE SliceV(Passed(Last)) ]_vars

\* C21 witness: --tags (one-or-more, store) with the single value a holds the
\* sequence [a].
StoreScalarOrSequenceWitness ==
  /\ pc = "done"
  /\ args = <<sTags, <<"a">>>>
  /\ Optionals[sTags].Action = "store" /\ ~Optionals[sTags].Choices.set
  /\ ns[<<"t", "a", "g", "s">>] = SliceV(<<StrV(<<"a">>)>>)

\* The argument a successful AddArgument step has put into the registry.
Registered ==
  IF Len(Positionals') > Len(Positionals)
    THEN Positionals'[Len(Positionals')]
    ELSE Optionals'[CHOOSE op \in DOMAIN Optionals' \ DOMAIN Optionals : TRUE]

\* The Dest options of the declaration of an AddArgument step.
ExplicitDest ==
  LET o == Programs[prog].decls[added'.d]
  IN {o[i].v : i \in {j \in DOMAIN o : o[j].opt = "Dest"}}

\* The maximal runs of consecutive alphanumeric characters of a string.
Runs(op) ==
  {SubSeq(op, i, j) : <<i, j>> \in
     {ij \in (DOMAIN op) \X (DOMAIN op) :
        /\ ij[1] <= ij[2]
        /\ \A k \in ij[1]..ij[2] : IsAlnum(op[k])
        /\ ij[1] = 1 \/ ~IsAlnum(op[ij[1] - 1])
        /\ ij[2] = Len(op) \/ ~IsAlnum(op[ij[2] + 1])}}

\* A string with every character that is not alphanumeric deleted.
RECURSIVE Alnums(_)
Alnums(op) ==
  IF op = <<>> THEN <<>>
  ELSE (IF IsAlnum(Head(op)) THEN <<Head(op)>> ELSE <<>>) \o Alnums(Tail(op))

\* C22 as stated (default key derivation): an argument declared without Dest
\* gets as its key a longest run of consecutive alphanumeric characters found
\* in any of its option strings (the empty key when there is no such run); an
\* explicit Dest is kept.
KeyDerivationAsClaimed ==
  [][ (Adding /\ added'.err = NoErr) =>
        LET a == Registered
            runs == UNION {Runs(a.OptionStrings[i]) : i \in DOMAIN a.OptionStrings}
        IN IF ExplicitDest # {} THEN a.Dest \in ExplicitDest
           ELSE IF runs = {} THEN a.Dest = <<>>
           ELSE a.Dest \in runs /\ \A r \in runs : Len(r) <= Len(a.Dest) ]_vars

\* C22 (default key derivation, amended): an argument declared without Dest
\* gets as its key the longest of its option strings once every character that
\* is not alphanumeric is deleted from each, the earliest of the longest ones,
\* in its own case (the empty key when it has no option string); an explicit
\* Dest is kept.
KeyDerivation ==
  [][ (Adding /\ added'.err = NoErr) =>
        LET a == Registered
            ops == a.OptionStrings
        IN IF ExplicitDest # {} THEN a.Dest \in ExplicitDest
           ELSE IF ops = <<>> THEN a.Dest = <<>>
           ELSE \E i \in DOMAIN ops :
                  /\ a.Dest = Alnums(ops[i])
                  /\ \A j \in DOMAIN ops : Len(Alnums(ops[j])) <= Len(a.Dest)
                  /\ \A j \in 1..(i - 1) : Len(Alnums(ops[j])) < Len(a.Dest) ]_vars

\* C22 witness: --dry-Run is registered under the key dryRun, which joins its
\* two runs, next to -o under its explicit key out.
KeyDerivationWitness ==
  /\ sDryRun \in DOMAIN Optionals
  /\ Optionals[sDryRun].Dest = <<"d", "r", "y", "R", "u", "n">>
  /\ sO \in DOMAIN Optionals
  /\ Optionals[sO].Dest = sOut

\* The option strings a declaration of the program gives: those of its last
\* OptionStrings option, none when it has no such option.
DeclaredStrings(d) ==
  LET o == Programs[prog].decls[d]
      at == {i \in DOMAIN o : o[i].opt = "OptionStrings"}
  IN IF at = {} THEN <<>> ELSE o[CHOOSE i \in at : \A j \in at : j <= i].v

\* Option strings that all start with "-" or of which none does, and that
\* are not empty.
WellFormed(ops) ==
  /\ ops # <<>>
  /\ \/ \A i \in DOMAIN ops : HasDashPrefix(ops[i])
     \/ \A i \in DOMAIN ops : ~HasDashPrefix(ops[i])

\* C23 (well-formed matchStrings): every argument the registry holds has
\* option strings that are not empty and agree on one classification, and an
\* AddArgument call whose declaration gives no option strings or mixed ones
\* has failed.
WellFormedOptionStrings ==
  /\ \A a \in AllArguments : WellFormed(a.OptionStrings)
  /\ (added.d # 0 /\ ~WellFormed(DeclaredStrings(added.d))) => added.err # NoErr

\* An option list with the options at i and j exchanged.
Swap(o, i, j) ==
  [k \in DOMAIN o |-> IF k = i THEN o[j] ELSE IF k = j THEN o[i] ELSE o[k]]

\* C24 (option order independence): the argument an AddArgument call
\* registers is the argument the same declaration gives with any two of its
\* options exchanged, whenever the exchanged declaration applies as well:
\* same arity, action, default and constant.
OrderIndependence ==
  [][ (Adding /\ added'.err = NoErr) =>
        LET o == Programs[prog].decls[added'.d]
        IN \A i, j \in DOMAIN o :
             LET r == ApplyOptions(ZeroArgument, Swap(o, i, j))
             IN r.ok => /\ WithDefaults(r.a).Nargs = Registered.Nargs
                        /\ WithDefaults(r.a).Action = Registered.Action
                        /\ WithDefaults(r.a).Default = Registered.Default
                        /\ WithDefaults(r.a).Const = Registered.Const ]_vars

\* The declaration d of the program has an option of one of the names.
HasOption(d, names) ==
  \E i \in DOMAIN Programs[prog].decls[d] : Programs[prog].decls[d][i].opt \in names

\* C25 (choices exclude an explicit metavar): an AddArgument call whose
\* declaration has both a choice set (Choices or ChoiceValues) and a MetaVar
\* has failed, and no registered argument has both choices and a MetaVar.
ChoicesExcludeMetaVar ==
  /\ (/\ added.d # 0
      /\ HasOption(added.d, {"Choices", "ChoiceValues"})
      /\ HasOption(added.d, {"MetaVar"})) => added.err # NoErr
  /\ \A a \in AllArguments : a.Choices.set => a.MetaVar = <<>>

\* The arguments the token loop of the current parse dispatched.
DispatchedArgs == {ArgOf(trace[i]) : i \in DOMAIN trace}

Calling == pc # "parsing" /\ pc' \in {"parsing", "exited"}

\* The tokens ask for help.
AsksHelp(toks) ==
  \E i \in DOMAIN toks : toks[i] \in {sH, <<"-", "-", "h", "e", "l", "p">>}

ZeroValues ==
  [][ (Dispatched /\ Last.toks = <<>>
         /\ ArgOf(Last).Nargs \in {0, ZeroOrOne, ZeroOrMore})
      => LET a == ArgOf(Last)
             u == UpdateNamespace(a, ns, <<a.Const>>)
         IN /\ Last.acted
            /\ Len(trace') = Len(trace) + 1
            /\ ns' = u.ns /\ Last.err = u.err
            /\ argi' = ValuesFrom(Last)
            /\ (a.Action = "store" /\ ~Has(ns, a))
               => /\ Last.err = NoErr
                  /\ DOMAIN ns' = DOMAIN ns \cup {a.Dest}
                  /\ ns'[a.Dest] = SliceV(<<a.Const>>)
                  /\ \A k \in DOMAIN ns : ns'[k] = ns[k] ]_vars

\* C28 witness: --flag (zero-or-more) directly before --other (zero-or-one,
\* Const k) at the end of the tokens: both ran store on their constant.
ZeroValuesWitness ==
  /\ pc = "done"
  /\ args = <<sFlag, sOther>>
  /\ Len(trace) = 2 /\ trace[1].toks = <<>> /\ trace[2].toks = <<>>
  /\ Optionals[sFlag].Nargs = ZeroOrMore /\ Optionals[sOther].Nargs = ZeroOrOne
  /\ ns[sFlagDest] = SliceV(<<Nil>>)
  /\ ns[sOtherDest] = SliceV(<<StrV(<<"k">>)>>)

\* C29 (an argument declared without Action and without Nargs): such an
\* argument is registered with the store action and arity zero; an argument
\* declared without Nargs has arity one only if Action("store") is among its
\* options, and an argument whose last Action or Nargs option is
\* Action("store") has arity at least one.  A dispatch of a store argument of
\* arity zero takes no token and leaves the cursor on the token after its
\* option string, and store, on a key not yet set, writes the one-element
\* sequence [Const].
BareArgument ==
  [][ /\ (Adding /\ added'.err = NoErr) =>
           LET o == Programs[prog].decls[added'.d]
               at == {i \in DOMAIN o : o[i].opt \in {"Action", "Nargs"}}
               last == CHOOSE i \in at : \A j \in at : j <= i
           IN /\ at = {} => (Registered.Action = "store" /\ Registered.Nargs = 0)
              /\ (~HasOption(added'.d, {"Nargs"}) /\ Registered.Nargs = 1)
                 => \E i \in at : o[i].opt = "Action" /\ o[i].v = "store"
              /\ (at # {} /\ o[last].opt = "Action" /\ o[last].v = "store")
                 => Registered.Nargs >= 1
      /\ (Dispatched /\ ArgOf(Last).Action = "store" /\ ArgOf(Last).Nargs = 0)
         => LET a == ArgOf(Last)
            IN /\ Last.toks = <<>>
               /\ argi' = ValuesFrom(Last)
               /\ Last.acted
               /\ IF Has(ns, a)
                    THEN Last.err.kind = "AlreadySet" /\ ns' = ns
                    ELSE /\ Last.err = NoErr
                         /\ ns' = Set(ns, a, SliceV(<<a.Const>>)) ]_vars

\* C29 witness: --need, declared with OptionStrings and Required only, was
\* matched before the token v: it took no token and stored [nil], and v,
\* dispatched on its own with no positional declared, was unexpected.
BareArgumentWitness ==
  /\ pc = "failed"
  /\ args = <<sNeed, <<"v">>>>
  /\ Optionals[sNeed].Action = "store" /\ Optionals[sNeed].Nargs = 0
  /\ Len(trace) = 1 /\ trace[1].toks = <<>> /\ trace[1].acted
  /\ argi = 1
  /\ ns = (<<"n", "e", "e", "d">> :> SliceV(<<Nil>>))
  /\ ret.err = Err("UnexpectedToken", <<"v">>)

\* C30 (presence is tracked per key): AddArgument accepts a declaration whose
\* key another registered argument has already, when its option strings are
\* free; a store argument whose action runs while its key is present, written
\* by whichever argument, fails the parse with AlreadySet and changes nothing;
\* the resolution pass leaves every key that is present as it is, and fails
\* with MissingRequired only for a key that is absent.
PresencePerKey ==
  [][ /\ (/\ Adding
          /\ ApplyOptions(ZeroArgument, Programs[prog].decls[added'.d]).ok
          /\ \E b \in AllArguments : b.Dest = Declared.Dest
          /\ Range(Declared.OptionStrings) \cap DOMAIN Optionals = {})
         => /\ added'.err = NoErr
            /\ Registered = Declared
      /\ (Dispatched /\ Last.acted /\ ArgOf(Last).Action = "store"
            /\ Has(ns, ArgOf(Last)))
         => /\ Last.err = Err("AlreadySet", ArgOf(Last).Dest)
            /\ pc' = "failed" /\ ret'.err = Last.err
            /\ ns' = ns
      /\ Resolving
         => /\ \A k \in DOMAIN ns : k \in DOMAIN ns' /\ ns'[k] = ns[k]
            /\ ret'.err.kind = "MissingRequired" => ret'.err.about \notin DOMAIN ns
            /\ (\A a \in AllArguments : a.Required => Has(ns, a))
               => ret'.err.kind # "MissingRequired" ]_vars

\* C30 witness: -o (key out) and the required positional out share the key;
\* -o took the token after it, the positional was never dispatched, and the
\* parse succeeded with the value -o wrote.
PresencePerKeyWitness ==
  /\ pc = "done"
  /\ args = <<sO, sO>>
  /\ sO \in DOMAIN Optionals /\ Optionals[sO].Dest = sOut
  /\ \E i \in DOMAIN Positionals :
       /\ Positionals[i].OptionStrings = <<sOut>>
       /\ Positionals[i].Dest = sOut /\ Positionals[i].Required
  /\ Len(trace) = 1 /\ trace[1].named
  /\ ret.ns.m = (sOut :> StrV(sO))

====
